---------------------------- MODULE Spec2Model ----------------------------
(***************************************************************************)
(* Model of scripts/daily.py: the scripture-reference normalizer           *)
(* (_normalize_book, _normalize_verses, _sanitize_ref), the slug deriver   *)
(* (slug_from_reference), the reference extractors and main()'s source     *)
(* fallback chain and output pipeline.                                     *)
(*                                                                         *)
(* A Python str is modelled as a sequence of characters.  A character is   *)
(* a one-character TLA+ string; characters outside printable ASCII are     *)
(* named by their code point: "U+0009" is TAB, "U+2013" EN DASH,           *)
(* "U+2014" EM DASH and "U+0663" ARABIC-INDIC DIGIT THREE (a character     *)
(* that Python's \d matches in a str pattern but [0-9] does not).          *)
(***************************************************************************)
EXTENDS Integers, Sequences, FiniteSets, TLC

VARIABLES
  run,          \* number of the current invocation
  today,        \* today_local_date()
  pc,           \* position in main()
  src_idx,      \* index of the feed the for loop is at
  first_ref, gospel_ref, src_used,
  fetched,      \* sources fetched by this invocation, in order
  outcomes,     \* what each fetched source gave: [kind, fr, gr]
  error,        \* the exception that ended the invocation, or None
  first_text, gospel_text,
  img_bytes, public_id, md_path,
  cdn,          \* public ids uploaded so far
  files,        \* the post files on disk: path -> front matter
  writes,       \* number of write_post calls that returned, over all runs
  \* the normalizer specification: a call's argument and results
  ref_in,       \* the argument
  parts,        \* how the argument was put together: [abbr, chap, verses]
  phase, sanitized, book_out, slug_out, reslug_out

\* Python's None: where a str (a sequence) may stand, and where a scalar may
None == <<"None">>

NoneAtom == "None"

\* no match of a pattern search
NoGroups == [abbr |-> None, chap |-> None, verses |-> None]

(***************************************************************************)
(* Character classes of Python's re module for str patterns.               *)
(***************************************************************************)
UpperSeq ==
  <<"A", "B", "C", "D", "E", "F", "G", "H", "I", "J", "K", "L", "M",
    "N", "O", "P", "Q", "R", "S", "T", "U", "V", "W", "X", "Y", "Z">>

LowerSeq ==
  <<"a", "b", "c", "d", "e", "f", "g", "h", "i", "j", "k", "l", "m",
    "n", "o", "p", "q", "r", "s", "t", "u", "v", "w", "x", "y", "z">>

Range(f) == {f[k] : k \in DOMAIN f}

Upper == Range(UpperSeq)

Lower == Range(LowerSeq)

AsciiDigit == {"0", "1", "2", "3", "4", "5", "6", "7", "8", "9"}

\* \d : every Unicode decimal digit, not only 0-9
IsDigit(c) == c \in AsciiDigit \cup {"U+0663"}

\* \s
IsSpace(c) == c \in {" ", "U+0009"}

\* [A-Za-z ]
IsAlphaSp(c) == c \in Upper \cup Lower \cup {" "}

\* [\d,\- ]
IsVerseCh(c) == IsDigit(c) \/ c \in {",", "-", " "}

\* .  (every character but a newline; no string of the model holds one)
IsAnyCh(c) == TRUE

\* str.lower() on one character
ToLower(c) ==
  IF c \in Upper THEN LowerSeq[CHOOSE k \in 1..26 : UpperSeq[k] = c] ELSE c

\* str.upper() on one character
ToUpper(c) ==
  IF c \in Lower THEN UpperSeq[CHOOSE k \in 1..26 : LowerSeq[k] = c] ELSE c

(***************************************************************************)
(* String primitives.                                                      *)
(***************************************************************************)
All(s, lo, hi, T(_)) == \A k \in lo..hi : T(s[k])

\* str.lower()
LowerStr(s) == [k \in 1..Len(s) |-> ToLower(s[k])]

\* str.upper()
UpperStr(s) == [k \in 1..Len(s) |-> ToUpper(s[k])]

\* re.sub(r"\s+", " ", s)
RECURSIVE CollapseWs(_)
CollapseWs(s) ==
  IF s = <<>> THEN <<>>
  ELSE IF IsSpace(Head(s))
       THEN IF Len(s) > 1 /\ IsSpace(s[2])
            THEN CollapseWs(Tail(s))
            ELSE <<" ">> \o CollapseWs(Tail(s))
       ELSE <<Head(s)>> \o CollapseWs(Tail(s))

\* re.sub(r"\s+", "", s)
RemoveWs(s) == SelectSeq(s, LAMBDA c : ~IsSpace(c))

\* str.strip(chars) for a set of characters
RECURSIVE LStripSet(_, _)
LStripSet(s, cs) ==
  IF s # <<>> /\ Head(s) \in cs THEN LStripSet(Tail(s), cs) ELSE s

RECURSIVE RStripSet(_, _)
RStripSet(s, cs) ==
  IF s # <<>> /\ s[Len(s)] \in cs
  THEN RStripSet(SubSeq(s, 1, Len(s) - 1), cs) ELSE s

StripSet(s, cs) == RStripSet(LStripSet(s, cs), cs)

\* str.strip() : whitespace on both ends
Strip(s) == StripSet(s, {" ", "U+0009"})

IsPrefix(p, s) == Len(p) <= Len(s) /\ SubSeq(s, 1, Len(p)) = p

\* str.replace(old, new), leftmost non-overlapping occurrences
RECURSIVE Replace(_, _, _)
Replace(s, old, new) ==
  IF s = <<>> THEN <<>>
  ELSE IF IsPrefix(old, s)
       THEN new \o Replace(SubSeq(s, Len(old) + 1, Len(s)), old, new)
       ELSE <<Head(s)>> \o Replace(Tail(s), old, new)

\* re.sub(r",+", ",", s)
RECURSIVE CollapseCommas(_)
CollapseCommas(s) ==
  IF s = <<>> THEN <<>>
  ELSE IF Head(s) = "," /\ Len(s) > 1 /\ s[2] = ","
       THEN CollapseCommas(Tail(s))
       ELSE <<Head(s)>> \o CollapseCommas(Tail(s))

\* re.sub(r"[^a-z0-9]+", "-", s)
IsSlugAlnum(c) == c \in Lower \cup AsciiDigit

RECURSIVE HyphenateNonAlnum(_)
HyphenateNonAlnum(s) ==
  IF s = <<>> THEN <<>>
  ELSE IF IsSlugAlnum(Head(s))
       THEN <<Head(s)>> \o HyphenateNonAlnum(Tail(s))
       ELSE IF Len(s) > 1 /\ ~IsSlugAlnum(s[2])
            THEN HyphenateNonAlnum(Tail(s))
            ELSE <<"-">> \o HyphenateNonAlnum(Tail(s))

(***************************************************************************)
(* BOOK_MAP: abbreviation or alias -> canonical book name.                 *)
(***************************************************************************)
BookPairs ==
  {
    <<<<"G", "e", "n">>, <<"G", "e", "n", "e", "s", "i", "s">>>>,
    <<<<"G", "e", "n", "e", "s", "i", "s">>, <<"G", "e", "n", "e", "s", "i", "s">>>>,
    <<<<"E", "x">>, <<"E", "x", "o", "d", "u", "s">>>>,
    <<<<"E", "x", "o", "d", "u", "s">>, <<"E", "x", "o", "d", "u", "s">>>>,
    <<<<"L", "e", "v">>, <<"L", "e", "v", "i", "t", "i", "c", "u", "s">>>>,
    <<<<"L", "e", "v", "i", "t", "i", "c", "u", "s">>, <<"L", "e", "v", "i", "t", "i", "c", "u", "s">>>>,
    <<<<"N", "u", "m">>, <<"N", "u", "m", "b", "e", "r", "s">>>>,
    <<<<"N", "u", "m", "b", "e", "r", "s">>, <<"N", "u", "m", "b", "e", "r", "s">>>>,
    <<<<"D", "t">>, <<"D", "e", "u", "t", "e", "r", "o", "n", "o", "m", "y">>>>,
    <<<<"D", "e", "u", "t">>, <<"D", "e", "u", "t", "e", "r", "o", "n", "o", "m", "y">>>>,
    <<<<"D", "e", "u", "t", "e", "r", "o", "n", "o", "m", "y">>, <<"D", "e", "u", "t", "e", "r", "o", "n", "o", "m", "y">>>>,
    <<<<"J", "o", "s">>, <<"J", "o", "s", "h", "u", "a">>>>,
    <<<<"J", "o", "s", "h", "u", "a">>, <<"J", "o", "s", "h", "u", "a">>>>,
    <<<<"J", "g", "s">>, <<"J", "u", "d", "g", "e", "s">>>>,
    <<<<"J", "u", "d", "g", "e", "s">>, <<"J", "u", "d", "g", "e", "s">>>>,
    <<<<"R", "u">>, <<"R", "u", "t", "h">>>>,
    <<<<"R", "u", "t", "h">>, <<"R", "u", "t", "h">>>>,
    <<<<"1", " ", "S", "m">>, <<"1", " ", "S", "a", "m", "u", "e", "l">>>>,
    <<<<"1", " ", "S", "a", "m", "u", "e", "l">>, <<"1", " ", "S", "a", "m", "u", "e", "l">>>>,
    <<<<"2", " ", "S", "m">>, <<"2", " ", "S", "a", "m", "u", "e", "l">>>>,
    <<<<"2", " ", "S", "a", "m", "u", "e", "l">>, <<"2", " ", "S", "a", "m", "u", "e", "l">>>>,
    <<<<"1", " ", "K", "g", "s">>, <<"1", " ", "K", "i", "n", "g", "s">>>>,
    <<<<"1", " ", "K", "i", "n", "g", "s">>, <<"1", " ", "K", "i", "n", "g", "s">>>>,
    <<<<"2", " ", "K", "g", "s">>, <<"2", " ", "K", "i", "n", "g", "s">>>>,
    <<<<"2", " ", "K", "i", "n", "g", "s">>, <<"2", " ", "K", "i", "n", "g", "s">>>>,
    <<<<"1", " ", "C", "h", "r">>, <<"1", " ", "C", "h", "r", "o", "n", "i", "c", "l", "e", "s">>>>,
    <<<<"1", " ", "C", "h", "r", "o", "n", "i", "c", "l", "e", "s">>, <<"1", " ", "C", "h", "r", "o", "n", "i", "c", "l", "e", "s">>>>,
    <<<<"2", " ", "C", "h", "r">>, <<"2", " ", "C", "h", "r", "o", "n", "i", "c", "l", "e", "s">>>>,
    <<<<"2", " ", "C", "h", "r", "o", "n", "i", "c", "l", "e", "s">>, <<"2", " ", "C", "h", "r", "o", "n", "i", "c", "l", "e", "s">>>>,
    <<<<"E", "z", "r">>, <<"E", "z", "r", "a">>>>,
    <<<<"E", "z", "r", "a">>, <<"E", "z", "r", "a">>>>,
    <<<<"N", "e", "h">>, <<"N", "e", "h", "e", "m", "i", "a", "h">>>>,
    <<<<"N", "e", "h", "e", "m", "i", "a", "h">>, <<"N", "e", "h", "e", "m", "i", "a", "h">>>>,
    <<<<"T", "o", "b">>, <<"T", "o", "b", "i", "t">>>>,
    <<<<"T", "b">>, <<"T", "o", "b", "i", "t">>>>,
    <<<<"T", "o", "b", "i", "t">>, <<"T", "o", "b", "i", "t">>>>,
    <<<<"J", "d", "t">>, <<"J", "u", "d", "i", "t", "h">>>>,
    <<<<"J", "u", "d", "i", "t", "h">>, <<"J", "u", "d", "i", "t", "h">>>>,
    <<<<"E", "s", "t">>, <<"E", "s", "t", "h", "e", "r">>>>,
    <<<<"E", "s", "t", "h", "e", "r">>, <<"E", "s", "t", "h", "e", "r">>>>,
    <<<<"J", "o", "b">>, <<"J", "o", "b">>>>,
    <<<<"P", "s">>, <<"P", "s", "a", "l", "m">>>>,
    <<<<"P", "s", "a", "l", "m", "s">>, <<"P", "s", "a", "l", "m">>>>,
    <<<<"P", "s", "a", "l", "m">>, <<"P", "s", "a", "l", "m">>>>,
    <<<<"P", "r", "v">>, <<"P", "r", "o", "v", "e", "r", "b", "s">>>>,
    <<<<"P", "r", "o", "v", "e", "r", "b", "s">>, <<"P", "r", "o", "v", "e", "r", "b", "s">>>>,
    <<<<"Q", "o", "h", "e", "l", "e", "t", "h">>, <<"E", "c", "c", "l", "e", "s", "i", "a", "s", "t", "e", "s">>>>,
    <<<<"E", "c", "c", "l">>, <<"E", "c", "c", "l", "e", "s", "i", "a", "s", "t", "e", "s">>>>,
    <<<<"E", "c", "c", "l", "e", "s", "i", "a", "s", "t", "e", "s">>, <<"E", "c", "c", "l", "e", "s", "i", "a", "s", "t", "e", "s">>>>,
    <<<<"S", "o", "n", "g">>, <<"S", "o", "n", "g", " ", "o", "f", " ", "S", "o", "n", "g", "s">>>>,
    <<<<"S", "g">>, <<"S", "o", "n", "g", " ", "o", "f", " ", "S", "o", "n", "g", "s">>>>,
    <<<<"S", "o", "n", "g", " ", "o", "f", " ", "S", "o", "n", "g", "s">>, <<"S", "o", "n", "g", " ", "o", "f", " ", "S", "o", "n", "g", "s">>>>,
    <<<<"W", "i", "s">>, <<"W", "i", "s", "d", "o", "m">>>>,
    <<<<"W", "i", "s", "d", "o", "m">>, <<"W", "i", "s", "d", "o", "m">>>>,
    <<<<"S", "i", "r">>, <<"S", "i", "r", "a", "c", "h">>>>,
    <<<<"S", "i", "r", "a", "c", "h">>, <<"S", "i", "r", "a", "c", "h">>>>,
    <<<<"I", "s">>, <<"I", "s", "a", "i", "a", "h">>>>,
    <<<<"I", "s", "a", "i", "a", "h">>, <<"I", "s", "a", "i", "a", "h">>>>,
    <<<<"J", "e", "r">>, <<"J", "e", "r", "e", "m", "i", "a", "h">>>>,
    <<<<"J", "e", "r", "e", "m", "i", "a", "h">>, <<"J", "e", "r", "e", "m", "i", "a", "h">>>>,
    <<<<"L", "a", "m">>, <<"L", "a", "m", "e", "n", "t", "a", "t", "i", "o", "n", "s">>>>,
    <<<<"L", "a", "m", "e", "n", "t", "a", "t", "i", "o", "n", "s">>, <<"L", "a", "m", "e", "n", "t", "a", "t", "i", "o", "n", "s">>>>,
    <<<<"B", "a", "r">>, <<"B", "a", "r", "u", "c", "h">>>>,
    <<<<"B", "a", "r", "u", "c", "h">>, <<"B", "a", "r", "u", "c", "h">>>>,
    <<<<"E", "z">>, <<"E", "z", "e", "k", "i", "e", "l">>>>,
    <<<<"E", "z", "e", "k", "i", "e", "l">>, <<"E", "z", "e", "k", "i", "e", "l">>>>,
    <<<<"D", "n">>, <<"D", "a", "n", "i", "e", "l">>>>,
    <<<<"D", "a", "n", "i", "e", "l">>, <<"D", "a", "n", "i", "e", "l">>>>,
    <<<<"H", "o", "s">>, <<"H", "o", "s", "e", "a">>>>,
    <<<<"H", "o", "s", "e", "a">>, <<"H", "o", "s", "e", "a">>>>,
    <<<<"J", "l">>, <<"J", "o", "e", "l">>>>,
    <<<<"J", "o", "e", "l">>, <<"J", "o", "e", "l">>>>,
    <<<<"A", "m">>, <<"A", "m", "o", "s">>>>,
    <<<<"A", "m", "o", "s">>, <<"A", "m", "o", "s">>>>,
    <<<<"O", "b">>, <<"O", "b", "a", "d", "i", "a", "h">>>>,
    <<<<"O", "b", "a", "d", "i", "a", "h">>, <<"O", "b", "a", "d", "i", "a", "h">>>>,
    <<<<"J", "o", "n">>, <<"J", "o", "n", "a", "h">>>>,
    <<<<"J", "o", "n", "a", "h">>, <<"J", "o", "n", "a", "h">>>>,
    <<<<"M", "i">>, <<"M", "i", "c", "a", "h">>>>,
    <<<<"M", "i", "c", "a", "h">>, <<"M", "i", "c", "a", "h">>>>,
    <<<<"N", "a">>, <<"N", "a", "h", "u", "m">>>>,
    <<<<"N", "a", "h", "u", "m">>, <<"N", "a", "h", "u", "m">>>>,
    <<<<"H", "a", "b">>, <<"H", "a", "b", "a", "k", "k", "u", "k">>>>,
    <<<<"H", "a", "b", "a", "k", "k", "u", "k">>, <<"H", "a", "b", "a", "k", "k", "u", "k">>>>,
    <<<<"Z", "e", "p">>, <<"Z", "e", "p", "h", "a", "n", "i", "a", "h">>>>,
    <<<<"Z", "e", "p", "h", "a", "n", "i", "a", "h">>, <<"Z", "e", "p", "h", "a", "n", "i", "a", "h">>>>,
    <<<<"H", "g">>, <<"H", "a", "g", "g", "a", "i">>>>,
    <<<<"H", "a", "g", "g", "a", "i">>, <<"H", "a", "g", "g", "a", "i">>>>,
    <<<<"Z", "e", "c">>, <<"Z", "e", "c", "h", "a", "r", "i", "a", "h">>>>,
    <<<<"Z", "e", "c", "h", "a", "r", "i", "a", "h">>, <<"Z", "e", "c", "h", "a", "r", "i", "a", "h">>>>,
    <<<<"M", "a", "l">>, <<"M", "a", "l", "a", "c", "h", "i">>>>,
    <<<<"M", "a", "l", "a", "c", "h", "i">>, <<"M", "a", "l", "a", "c", "h", "i">>>>,
    <<<<"1", " ", "M", "c">>, <<"1", " ", "M", "a", "c", "c", "a", "b", "e", "e", "s">>>>,
    <<<<"1", " ", "M", "a", "c", "c", "a", "b", "e", "e", "s">>, <<"1", " ", "M", "a", "c", "c", "a", "b", "e", "e", "s">>>>,
    <<<<"2", " ", "M", "c">>, <<"2", " ", "M", "a", "c", "c", "a", "b", "e", "e", "s">>>>,
    <<<<"2", " ", "M", "a", "c", "c", "a", "b", "e", "e", "s">>, <<"2", " ", "M", "a", "c", "c", "a", "b", "e", "e", "s">>>>,
    <<<<"M", "t">>, <<"M", "a", "t", "t", "h", "e", "w">>>>,
    <<<<"M", "a", "t", "t", "h", "e", "w">>, <<"M", "a", "t", "t", "h", "e", "w">>>>,
    <<<<"M", "k">>, <<"M", "a", "r", "k">>>>,
    <<<<"M", "a", "r", "k">>, <<"M", "a", "r", "k">>>>,
    <<<<"L", "k">>, <<"L", "u", "k", "e">>>>,
    <<<<"L", "k", ".">>, <<"L", "u", "k", "e">>>>,
    <<<<"L", "u", "k", "e">>, <<"L", "u", "k", "e">>>>,
    <<<<"J", "n">>, <<"J", "o", "h", "n">>>>,
    <<<<"J", "o", "h", "n">>, <<"J", "o", "h", "n">>>>,
    <<<<"A", "c", "t", "s">>, <<"A", "c", "t", "s">>>>,
    <<<<"R", "o", "m">>, <<"R", "o", "m", "a", "n", "s">>>>,
    <<<<"R", "o", "m", "a", "n", "s">>, <<"R", "o", "m", "a", "n", "s">>>>,
    <<<<"1", " ", "C", "o", "r">>, <<"1", " ", "C", "o", "r", "i", "n", "t", "h", "i", "a", "n", "s">>>>,
    <<<<"1", " ", "C", "o", "r", "i", "n", "t", "h", "i", "a", "n", "s">>, <<"1", " ", "C", "o", "r", "i", "n", "t", "h", "i", "a", "n", "s">>>>,
    <<<<"2", " ", "C", "o", "r">>, <<"2", " ", "C", "o", "r", "i", "n", "t", "h", "i", "a", "n", "s">>>>,
    <<<<"2", " ", "C", "o", "r", "i", "n", "t", "h", "i", "a", "n", "s">>, <<"2", " ", "C", "o", "r", "i", "n", "t", "h", "i", "a", "n", "s">>>>,
    <<<<"G", "a", "l">>, <<"G", "a", "l", "a", "t", "i", "a", "n", "s">>>>,
    <<<<"G", "a", "l", "a", "t", "i", "a", "n", "s">>, <<"G", "a", "l", "a", "t", "i", "a", "n", "s">>>>,
    <<<<"E", "p", "h">>, <<"E", "p", "h", "e", "s", "i", "a", "n", "s">>>>,
    <<<<"E", "p", "h", "e", "s", "i", "a", "n", "s">>, <<"E", "p", "h", "e", "s", "i", "a", "n", "s">>>>,
    <<<<"P", "h", "i", "l">>, <<"P", "h", "i", "l", "i", "p", "p", "i", "a", "n", "s">>>>,
    <<<<"P", "h", "i", "l", "i", "p", "p", "i", "a", "n", "s">>, <<"P", "h", "i", "l", "i", "p", "p", "i", "a", "n", "s">>>>,
    <<<<"C", "o", "l">>, <<"C", "o", "l", "o", "s", "s", "i", "a", "n", "s">>>>,
    <<<<"C", "o", "l", "o", "s", "s", "i", "a", "n", "s">>, <<"C", "o", "l", "o", "s", "s", "i", "a", "n", "s">>>>,
    <<<<"1", " ", "T", "h", "e", "s">>, <<"1", " ", "T", "h", "e", "s", "s", "a", "l", "o", "n", "i", "a", "n", "s">>>>,
    <<<<"1", " ", "T", "h", "e", "s", "s", "a", "l", "o", "n", "i", "a", "n", "s">>, <<"1", " ", "T", "h", "e", "s", "s", "a", "l", "o", "n", "i", "a", "n", "s">>>>,
    <<<<"2", " ", "T", "h", "e", "s">>, <<"2", " ", "T", "h", "e", "s", "s", "a", "l", "o", "n", "i", "a", "n", "s">>>>,
    <<<<"2", " ", "T", "h", "e", "s", "s", "a", "l", "o", "n", "i", "a", "n", "s">>, <<"2", " ", "T", "h", "e", "s", "s", "a", "l", "o", "n", "i", "a", "n", "s">>>>,
    <<<<"1", " ", "T", "m">>, <<"1", " ", "T", "i", "m", "o", "t", "h", "y">>>>,
    <<<<"1", " ", "T", "i", "m", "o", "t", "h", "y">>, <<"1", " ", "T", "i", "m", "o", "t", "h", "y">>>>,
    <<<<"2", " ", "T", "m">>, <<"2", " ", "T", "i", "m", "o", "t", "h", "y">>>>,
    <<<<"2", " ", "T", "i", "m", "o", "t", "h", "y">>, <<"2", " ", "T", "i", "m", "o", "t", "h", "y">>>>,
    <<<<"T", "i", "t">>, <<"T", "i", "t", "u", "s">>>>,
    <<<<"T", "i", "t", "u", "s">>, <<"T", "i", "t", "u", "s">>>>,
    <<<<"P", "h", "l", "m">>, <<"P", "h", "i", "l", "e", "m", "o", "n">>>>,
    <<<<"P", "h", "i", "l", "e", "m", "o", "n">>, <<"P", "h", "i", "l", "e", "m", "o", "n">>>>,
    <<<<"H", "e", "b">>, <<"H", "e", "b", "r", "e", "w", "s">>>>,
    <<<<"H", "e", "b", "r", "e", "w", "s">>, <<"H", "e", "b", "r", "e", "w", "s">>>>,
    <<<<"J", "a", "s">>, <<"J", "a", "m", "e", "s">>>>,
    <<<<"J", "a", "m", "e", "s">>, <<"J", "a", "m", "e", "s">>>>,
    <<<<"1", " ", "P", "t">>, <<"1", " ", "P", "e", "t", "e", "r">>>>,
    <<<<"1", " ", "P", "e", "t", "e", "r">>, <<"1", " ", "P", "e", "t", "e", "r">>>>,
    <<<<"2", " ", "P", "t">>, <<"2", " ", "P", "e", "t", "e", "r">>>>,
    <<<<"2", " ", "P", "e", "t", "e", "r">>, <<"2", " ", "P", "e", "t", "e", "r">>>>,
    <<<<"1", " ", "J", "n">>, <<"1", " ", "J", "o", "h", "n">>>>,
    <<<<"1", " ", "J", "o", "h", "n">>, <<"1", " ", "J", "o", "h", "n">>>>,
    <<<<"2", " ", "J", "n">>, <<"2", " ", "J", "o", "h", "n">>>>,
    <<<<"2", " ", "J", "o", "h", "n">>, <<"2", " ", "J", "o", "h", "n">>>>,
    <<<<"3", " ", "J", "n">>, <<"3", " ", "J", "o", "h", "n">>>>,
    <<<<"3", " ", "J", "o", "h", "n">>, <<"3", " ", "J", "o", "h", "n">>>>,
    <<<<"J", "u", "d", "e">>, <<"J", "u", "d", "e">>>>,
    <<<<"R", "v">>, <<"R", "e", "v", "e", "l", "a", "t", "i", "o", "n">>>>,
    <<<<"R", "e", "v", "e", "l", "a", "t", "i", "o", "n">>, <<"R", "e", "v", "e", "l", "a", "t", "i", "o", "n">>>>
  }

BookKeys == {p[1] : p \in BookPairs}

BOOK_MAP == [k \in BookKeys |-> (CHOOSE p \in BookPairs : p[1] = k)[2]]

(***************************************************************************)
(* _normalize_book                                                         *)
(***************************************************************************)
BookLookup(a) == IF a \in BookKeys THEN BOOK_MAP[a] ELSE a

_normalize_book(abbr) == BookLookup(CollapseWs(Strip(abbr)))

(***************************************************************************)
(* _normalize_verses                                                       *)
(***************************************************************************)
DropNonVerseChars(vs) == SelectSeq(vs, IsVerseCh)

_normalize_verses(vs) ==
  LET v1 == Strip(vs)
      v2 == Replace(Replace(Replace(v1, <<"U+2013">>, <<"-">>),
                            <<"U+2014">>, <<"-">>),
                    <<" ", "t", "o", " ">>, <<"-">>)
      v3 == DropNonVerseChars(v2)
      v4 == RemoveWs(v3)
  IN  StripSet(CollapseCommas(v4), {","})

(***************************************************************************)
(* The two reference patterns                                              *)
(*   ^\s*([1-3]?\s?[A-Za-z ]+)\s+(\d+):(.+?)\s*$        (_sanitize_ref)   *)
(*   ^\s*([1-3]?\s?[A-Za-z ]+)\s+(\d+):([\d,\- ]+)\s*$  (slug_from_...)   *)
(* A match is <<a, b, c, d, e>>: s[1..a] is the leading \s*, s[a+1..b]     *)
(* group 1, s[b+1..c] the \s+, s[c+1..d] group 2, s[d+1] the colon,        *)
(* s[d+2..e] group 3 and s[e+1..Len(s)] the trailing \s*.  The match the   *)
(* backtracking engine returns is the first in its search order: every     *)
(* quantifier greedy (longest first) except the lazy .+? (shortest first). *)
(***************************************************************************)
\* ([1-3]?\s?[A-Za-z ]+) spans s[a+1..b]
Group1Ok(s, a, b) ==
  \E o1 \in {0, 1}, o2 \in {0, 1} :
     /\ a + o1 + o2 < b
     /\ o1 = 1 => s[a + 1] \in {"1", "2", "3"}
     /\ o2 = 1 => IsSpace(s[a + o1 + 1])
     /\ All(s, a + o1 + o2 + 1, b, IsAlphaSp)

RefMatches(s, G3(_)) ==
  LET n == Len(s)
      As == {a \in 0..n : All(s, 1, a, IsSpace)}
      Bs(a) == {b \in (a + 1)..n : Group1Ok(s, a, b)}
      Cs(b) == {c \in (b + 1)..n : All(s, b + 1, c, IsSpace)}
      Ds(c) == {d \in (c + 1)..(n - 1) :
                  All(s, c + 1, d, IsDigit) /\ s[d + 1] = ":"}
      Es(d) == {e \in (d + 2)..n :
                  All(s, d + 2, e, G3) /\ All(s, e + 1, n, IsSpace)}
  IN  UNION {UNION {UNION {UNION {{<<a, b, c, d, e>> : e \in Es(d)}
        : d \in Ds(c)} : c \in Cs(b)} : b \in Bs(a)} : a \in As}

\* t is tried before u by the engine (lazy: group 3 shortest first)
Earlier(t, u, lazy) ==
  \E k \in 1..5 :
     /\ \A j \in 1..(k - 1) : t[j] = u[j]
     /\ IF k = 5 /\ lazy THEN t[k] < u[k] ELSE t[k] > u[k]

NoMatch == [ok |-> FALSE]

\* the match of M the engine finds first
FirstMatch(M, lazy) ==
  CHOOSE t \in M : \A u \in M : u = t \/ Earlier(t, u, lazy)

\* m.group(1), m.group(2), m.group(3)
Groups(s, t) ==
  [ok |-> TRUE,
   g1 |-> SubSeq(s, t[1] + 1, t[2]),
   g2 |-> SubSeq(s, t[3] + 1, t[4]),
   g3 |-> SubSeq(s, t[4] + 2, t[5])]

PickMatch(s, M, lazy) ==
  IF M = {} THEN NoMatch ELSE Groups(s, FirstMatch(M, lazy))

RefMatch(s, G3(_), lazy) == PickMatch(s, RefMatches(s, G3), lazy)

\* re.match(r"^\s*([1-3]?\s?[A-Za-z ]+)\s+(\d+):(.+?)\s*$", ref)
SanitizeMatch(ref) == RefMatch(ref, IsAnyCh, TRUE)

\* re.match(r"^\s*([1-3]?\s?[A-Za-z ]+)\s+(\d+):([\d,\- ]+)\s*$", ref)
SlugMatch(ref) == RefMatch(ref, IsVerseCh, FALSE)

(***************************************************************************)
(* _sanitize_ref                                                           *)
(***************************************************************************)
FormatRef(bk, chap, verses) == bk \o <<" ">> \o chap \o <<":">> \o verses

\* the fallback without .strip(" ,;:-")
SanitizeFallback_NoStrip(ref) == ref

SanitizeFallback(ref) == StripSet(ref, {" ", ",", ";", ":", "-"})

\* the two branches on the match m of the collapsed, stripped ref
SanitizeGroups(ref, m) ==
  IF ~m.ok THEN SanitizeFallback(ref)
  ELSE FormatRef(_normalize_book(m.g1), m.g2, _normalize_verses(m.g3))

SanitizeCollapsed(ref) == SanitizeGroups(ref, SanitizeMatch(ref))

_sanitize_ref(ref0) ==
  IF ref0 = <<>> THEN ref0 ELSE SanitizeCollapsed(Strip(CollapseWs(ref0)))

(***************************************************************************)
(* slug_from_reference                                                     *)
(***************************************************************************)
POST == <<"p", "o", "s", "t">>

\* the generic slug without .strip("-")
SlugBase_NoStrip(ref) == HyphenateNonAlnum(LowerStr(ref))

\* re.sub(r"[^a-z0-9]+", "-", ref.lower()).strip("-")
SlugBase(ref) == StripSet(HyphenateNonAlnum(LowerStr(ref)), {"-"})

\* base or "post"
OrPost(base) == IF base = <<>> THEN POST ELSE base

GenericSlug(ref) == OrPost(SlugBase(ref))

SlugBook(g1) == SelectSeq(LowerStr(g1), LAMBDA c : c # " ")

\* the verses without .replace(",", "_")
SlugVerses_KeepCommas(g3) == SelectSeq(g3, LAMBDA c : c # " ")

SlugVerses(g3) == Replace(SelectSeq(g3, LAMBDA c : c # " "), <<",">>, <<"_">>)

\* the two branches on the match m of the sanitized ref
SlugGroups(ref, m) ==
  IF ~m.ok THEN GenericSlug(ref)
  ELSE SlugBook(m.g1) \o m.g2 \o <<"_">> \o SlugVerses(m.g3)

SlugSanitized(ref) == SlugGroups(ref, SlugMatch(ref))

slug_from_reference(ref0) == SlugSanitized(_sanitize_ref(ref0))

(***************************************************************************)
(* Reference extraction.  The pattern searches over the feed entry or the  *)
(* page are the environment's part: an input names, for each search the    *)
(* code makes, the groups (abbr, chap, verses) it matched, or None.  What  *)
(* the code does with the groups is modelled as written.                   *)
(***************************************************************************)
Truthy(v) == v # None /\ v # <<>>

\* x or y
Or(x, y) == IF Truthy(x) THEN x ELSE y

\* the body shared by _find_ref_in_text, mk and grab
RefFromGroups(m) ==
  _sanitize_ref(FormatRef(_normalize_book(m.abbr), m.chap,
                          _normalize_verses(m.verses)))

_find_ref_in_text(m) == IF m = NoGroups THEN None ELSE RefFromGroups(m)

\* the loose matches fill what the labelled patterns left empty
GenericRefs(first0, gospel0, matches) ==
  IF Truthy(first0) /\ Truthy(gospel0) THEN <<first0, gospel0>>
  ELSE <<IF ~Truthy(first0) /\ Len(matches) >= 1
         THEN RefFromGroups(matches[1]) ELSE first0,
         IF ~Truthy(gospel0) /\ Len(matches) >= 2
         THEN RefFromGroups(matches[2]) ELSE gospel0>>

extract_refs_from_entry_generic(entry) ==
  GenericRefs(_find_ref_in_text(entry.reading),
              _find_ref_in_text(entry.gospel), entry.loose)

\* re.search(r"\d", verses)
HasDigit(vs) == \E k \in 1..Len(vs) : IsDigit(vs[k])

grab(m) ==
  IF m = NoGroups THEN None
  ELSE IF HasDigit(_normalize_verses(m.verses)) THEN RefFromGroups(m)
       ELSE None

\* the labelled patterns fill what the snippets left empty
HtmlRefs(first0, gospel0, page) ==
  IF Truthy(first0) /\ Truthy(gospel0) THEN <<first0, gospel0>>
  ELSE <<Or(first0, _find_ref_in_text(page.reading)),
         Or(gospel0, _find_ref_in_text(page.gospel))>>

extract_refs_from_html(page) ==
  HtmlRefs(grab(page.first_snip), grab(page.gospel_snip), page)

(***************************************************************************)
(* fetch_kjv_text: which kind of text comes back for a reference.          *)
(***************************************************************************)
DEUTERO ==
  { <<"T", "o", "b", "i", "t">>, <<"J", "u", "d", "i", "t", "h">>,
    <<"W", "i", "s", "d", "o", "m">>, <<"S", "i", "r", "a", "c", "h">>,
    <<"B", "a", "r", "u", "c", "h">>,
    <<"1", " ", "M", "a", "c", "c", "a", "b", "e", "e", "s">>,
    <<"2", " ", "M", "a", "c", "c", "a", "b", "e", "e", "s">> }

\* re.match(r"^\s*([1-3]?\s?[A-Za-z ]+)\s+\d+:", ref_str), then group(1).strip()
KjvMatches(s) ==
  {t \in (0..Len(s)) \X (0..Len(s)) :
     /\ All(s, 1, t[1], IsSpace)
     /\ t[1] < t[2]
     /\ Group1Ok(s, t[1], t[2])
     /\ \E c \in (t[2] + 1)..Len(s), d \in (t[2] + 2)..(Len(s) - 1) :
           /\ c < d
           /\ All(s, t[2] + 1, c, IsSpace)
           /\ All(s, c + 1, d, IsDigit)
           /\ s[d + 1] = ":"}

FirstKjvMatch(M) ==
  CHOOSE t \in M : \A u \in M :
     u = t \/ t[1] > u[1] \/ (t[1] = u[1] /\ t[2] > u[2])

KjvGroup1(s, t) == Strip(SubSeq(s, t[1] + 1, t[2]))

KjvPick(s, M) == IF M = {} THEN <<>> ELSE KjvGroup1(s, FirstKjvMatch(M))

KjvBook(s) == KjvPick(s, KjvMatches(s))

\* "deutero": the note, no request made; otherwise the request's outcome
fetch_kjv_text(ref_str, outcome) ==
  IF ~Truthy(ref_str) THEN "empty"
  ELSE IF KjvBook(_sanitize_ref(ref_str)) \in DEUTERO THEN "deutero_note"
       ELSE outcome

\* the request's outcomes: verses came back, or one of the notes
KjvOutcomes == {"verses", "unable_note"}

(***************************************************************************)
(* Bounds and inputs.                                                      *)
(***************************************************************************)
\* invocations of main() in one behaviour
MaxRuns == 2

\* loose matches of an entry the model distinguishes (the code reads two)
MaxLoose == 2

\* longest arbitrary input string of the normalizer specification
MaxLen == 3

\* longest verse expression of a structured input
MaxVerseLen == 2

\* what today_local_date() can return to a run
Dates == { [year |-> 2025, month |-> 11, day |-> 2],
           [year |-> 2025, month |-> 12, day |-> 25] }

\* groups a pattern search can hand back: mapped and unmapped (matched
\* case-insensitively) abbreviations, dashes, verses that normalise to ""
MatchSamples ==
  { [abbr |-> <<"L", "k">>, chap |-> <<"1", "4">>,
     verses |-> <<"1", "2", "-", "1", "4">>],
    [abbr |-> <<"l", "k">>, chap |-> <<"4">>,
     verses |-> <<"1", "U+2013", "3", ",", " ">>],
    [abbr |-> <<"T", "b">>, chap |-> <<"2">>, verses |-> <<",", " ">>] }

MatchOrNone == MatchSamples \cup {NoGroups}

LooseLists == UNION {[1..n -> MatchSamples] : n \in 0..MaxLoose}

\* a feed entry, as the searches of extract_refs_from_entry_generic see it:
\* the loose pattern is a suffix of the labelled ones, so it matches
\* whenever one of them does
Entries ==
  {e \in [reading : MatchOrNone, gospel : MatchOrNone, loose : LooseLists] :
     (e.reading # NoGroups \/ e.gospel # NoGroups) => e.loose # <<>>}

\* a page, as the searches of extract_refs_from_html see it
Pages ==
  {p \in [first_snip : MatchOrNone, gospel_snip : MatchOrNone,
          reading : MatchOrNone, gospel : MatchOrNone] :
     /\ p.reading # NoGroups => p.first_snip # NoGroups
     /\ p.gospel # NoGroups => p.gospel_snip # NoGroups}

\* what extract_refs_from_entry_generic returns over the entries
EntryRefs == {extract_refs_from_entry_generic(e) : e \in Entries}

\* what extract_refs_from_html returns over the pages
PageRefs == {extract_refs_from_html(p) : p \in Pages}

\* the references a source can hand to main()
SourceRefs ==
  {r[1] : r \in EntryRefs \cup PageRefs} \cup
  {r[2] : r \in EntryRefs \cup PageRefs}

\* _sanitize_ref and fetch_kjv_text over those references, computed once
SanitizedRef == [r \in SourceRefs \ {None} |-> _sanitize_ref(r)]

KjvText ==
  [r \in {SanitizedRef[s] : s \in DOMAIN SanitizedRef} \cup {None},
   o \in KjvOutcomes |-> fetch_kjv_text(r, o)]

(***************************************************************************)
(* main()                                                                  *)
(***************************************************************************)
mainVars ==
  <<run, today, pc, src_idx, first_ref, gospel_ref, src_used, fetched, outcomes,
    error, first_text, gospel_text, img_bytes, public_id, md_path, cdn, files,
    writes>>

fnVars == <<ref_in, parts, phase, sanitized, book_out, slug_out, reslug_out>>

vars == <<mainVars, fnVars>>

FEEDS == <<"catholic.org", "usccb_rss", "feedburner">>

USCCB_HTML == "usccb_html"

CONTENT_DIR == "content/post"

DAILY_GOSPEL ==
  <<"d", "a", "i", "l", "y", "-", "g", "o", "s", "p", "e", "l">>

\* "if fr and gr": a source with one reference does not stop the chain
RefsFound_BothNeeded(fr, gr) == Truthy(fr) /\ Truthy(gr)

\* if fr or gr:
RefsFound(fr, gr) == Truthy(fr) \/ Truthy(gr)

\* "if not (first_ref and gospel_ref)": the page is fetched, and may
\* overwrite, when a feed gave one reference only
NeedsFallback_Either(fr, gr) == ~(Truthy(fr) /\ Truthy(gr))

\* if not (first_ref or gospel_ref):   (before the HTML fallback)
NeedsFallback(fr, gr) == ~(Truthy(fr) \/ Truthy(gr))

\* the raise left out
NoneFound_Omitted(fr, gr) == FALSE

\* if not (first_ref or gospel_ref):   (before the raise)
NoneFound(fr, gr) == ~(Truthy(fr) \/ Truthy(gr))

\* _sanitize_ref(fr) if fr else None
Kept(r) == IF Truthy(r) THEN SanitizedRef[r] ELSE None

RunStart ==
  /\ pc = "feeds"
  /\ src_idx = 1
  /\ first_ref = None
  /\ gospel_ref = None
  /\ src_used = NoneAtom
  /\ fetched = <<>>
  /\ outcomes = <<>>
  /\ error = NoneAtom
  /\ first_text = NoneAtom
  /\ gospel_text = NoneAtom
  /\ img_bytes = NoneAtom
  /\ public_id = None
  /\ md_path = None

FnIdle ==
  /\ ref_in = <<>>
  /\ parts = NoGroups
  /\ phase = "idle"
  /\ sanitized = None
  /\ book_out = None
  /\ slug_out = None
  /\ reslug_out = None

Init ==
  /\ run = 1
  /\ cdn = {}
  /\ files = <<>>
  /\ writes = 0
  /\ today \in Dates
  /\ RunStart
  /\ FnIdle

\* one iteration of: for src in ("catholic.org", "usccb_rss", "feedburner")
FeedStep(kind, fr, gr) ==
  /\ fetched' = Append(fetched, FEEDS[src_idx])
  /\ outcomes' = Append(outcomes, [kind |-> kind, fr |-> fr, gr |-> gr])
  /\ IF kind = "refs" /\ RefsFound(fr, gr)
     THEN /\ first_ref' = Kept(fr)
          /\ gospel_ref' = Kept(gr)
          /\ src_used' = FEEDS[src_idx]
          /\ pc' = "html"
          /\ src_idx' = src_idx
     ELSE /\ pc' = IF src_idx = Len(FEEDS) THEN "html" ELSE "feeds"
          /\ src_idx' = src_idx + 1
          /\ UNCHANGED <<first_ref, gospel_ref, src_used>>
  /\ UNCHANGED <<run, today, error, first_text, gospel_text, img_bytes,
                 public_id, md_path, cdn, files, writes, fnVars>>

\* fetch_feed or extract_refs_from_entry_generic raises: caught, logged
FeedError ==
  /\ pc = "feeds"
  /\ FeedStep("exception", None, None)

\* the feed has no entries: continue
FeedEmpty ==
  /\ pc = "feeds"
  /\ FeedStep("no_entry", None, None)

\* an entry is picked and searched
FeedEntry ==
  /\ pc = "feeds"
  /\ \E r \in EntryRefs : FeedStep("refs", r[1], r[2])

\* a feed gave a reference: the page is not fetched
HtmlSkip ==
  /\ pc = "html"
  /\ ~NeedsFallback(first_ref, gospel_ref)
  /\ pc' = "check"
  /\ UNCHANGED <<run, today, src_idx, first_ref, gospel_ref, src_used, fetched,
                 outcomes, error, first_text, gospel_text, img_bytes,
                 public_id, md_path, cdn, files, writes, fnVars>>

HtmlStep(kind, fr, gr) ==
  /\ pc = "html"
  /\ NeedsFallback(first_ref, gospel_ref)
  /\ fetched' = Append(fetched, USCCB_HTML)
  /\ outcomes' = Append(outcomes, [kind |-> kind, fr |-> fr, gr |-> gr])
  /\ IF kind = "refs" /\ RefsFound(fr, gr)
     THEN /\ first_ref' = Kept(fr)
          /\ gospel_ref' = Kept(gr)
          /\ src_used' = USCCB_HTML
     ELSE UNCHANGED <<first_ref, gospel_ref, src_used>>
  /\ pc' = "check"
  /\ UNCHANGED <<run, today, src_idx, error, first_text, gospel_text, img_bytes,
                 public_id, md_path, cdn, files, writes, fnVars>>

\* fetch_usccb_daily_page or extract_refs_from_html raises: caught, logged
HtmlError ==
  HtmlStep("exception", None, None)

HtmlPage ==
  \E r \in PageRefs : HtmlStep("refs", r[1], r[2])

\* raise RuntimeError("No readings found ...")
NotFound ==
  /\ pc = "check"
  /\ NoneFound(first_ref, gospel_ref)
  /\ pc' = "aborted"
  /\ error' = "RuntimeError: No readings found"
  /\ UNCHANGED <<run, today, src_idx, first_ref, gospel_ref, src_used, fetched,
                 outcomes, first_text, gospel_text, img_bytes, public_id,
                 md_path, cdn, files, writes, fnVars>>

\* first_text, gospel_text = fetch_kjv_text(...) if ... else ""
FetchTexts ==
  /\ pc = "check"
  /\ ~NoneFound(first_ref, gospel_ref)
  /\ \E o1 \in KjvOutcomes, o2 \in KjvOutcomes :
        /\ first_text' = KjvText[first_ref, o1]
        /\ gospel_text' = KjvText[gospel_ref, o2]
  /\ pc' = "image"
  /\ fetched' = <<>>
  /\ outcomes' = <<>>
  /\ UNCHANGED <<run, today, src_idx, first_ref, gospel_ref, src_used, error,
                 img_bytes, public_id, md_path, cdn, files, writes, fnVars>>

\* DISABLE_IMAGE_GEN=1, or openai_generate_image raises: the placeholder
PlaceholderImage ==
  /\ pc = "image"
  /\ img_bytes' = "placeholder"
  /\ pc' = "upload"
  /\ UNCHANGED <<run, today, src_idx, first_ref, gospel_ref, src_used, fetched,
                 outcomes, error, first_text, gospel_text, public_id,
                 md_path, cdn, files, writes, fnVars>>

GenerateImage ==
  /\ pc = "image"
  /\ img_bytes' = "generated"
  /\ pc' = "upload"
  /\ UNCHANGED <<run, today, src_idx, first_ref, gospel_ref, src_used, fetched,
                 outcomes, error, first_text, gospel_text, public_id,
                 md_path, cdn, files, writes, fnVars>>

\* the slug from the first reading, the title from the gospel
SlugSource_FirstReading(fr, gr) == Or(fr, Or(gr, DAILY_GOSPEL))

\* gospel_ref or first_ref or "daily-gospel"
SlugSource(fr, gr) == Or(gr, Or(fr, DAILY_GOSPEL))

\* gospel_ref or first_ref or "Daily Readings"
DAILY_READINGS ==
  <<"D", "a", "i", "l", "y", " ", "R", "e", "a", "d", "i", "n", "g", "s">>

Title(fr, gr) == Or(gr, Or(fr, DAILY_READINGS))

PublicId(d, s) == <<"matthew419", d.year, d.month, s>>

\* slug_from_reference over what main() can hand it, computed once
SlugOf ==
  [r \in {SanitizedRef[s] : s \in DOMAIN SanitizedRef} \cup
         {DAILY_GOSPEL, DAILY_READINGS} |-> slug_from_reference(r)]

\* CONTENT_DIR / f"{slug}.md"
PostPath(s) == <<CONTENT_DIR, s \o <<".", "m", "d">>>>

\* upload_to_cloudinary returns
Upload ==
  /\ pc = "upload"
  /\ public_id' = PublicId(today, SlugOf[SlugSource(first_ref, gospel_ref)])
  /\ cdn' = cdn \cup {public_id'}
  /\ pc' = "write"
  /\ UNCHANGED <<run, today, src_idx, first_ref, gospel_ref, src_used, fetched,
                 outcomes, error, first_text, gospel_text, img_bytes,
                 md_path, files, writes, fnVars>>

\* the exception of upload_to_cloudinary caught and the run going on to
\* write_post
UploadError_Swallowed ==
  /\ pc = "upload"
  /\ public_id' = PublicId(today, SlugOf[SlugSource(first_ref, gospel_ref)])
  /\ pc' = "write"
  /\ UNCHANGED <<run, today, src_idx, first_ref, gospel_ref, src_used, fetched,
                 outcomes, error, first_text, gospel_text, img_bytes, md_path,
                 cdn, files, writes, fnVars>>

\* upload_to_cloudinary raises (CLOUDINARY_URL invalid, HTTP error)
UploadError ==
  /\ pc = "upload"
  /\ public_id' = PublicId(today, SlugOf[SlugSource(first_ref, gospel_ref)])
  /\ error' = "upload error"
  /\ pc' = "aborted"
  /\ UNCHANGED <<run, today, src_idx, first_ref, gospel_ref, src_used, fetched,
                 outcomes, first_text, gospel_text, img_bytes, md_path,
                 cdn, files, writes, fnVars>>

\* write_post(slug, title, body, date_iso): write_text overwrites
WritePost ==
  /\ pc = "write"
  /\ md_path' = PostPath(public_id[4])
  /\ files' = [p \in DOMAIN files \cup {md_path'} |->
                 IF p = md_path'
                 THEN [title |-> Title(first_ref, gospel_ref), date |-> today]
                 ELSE files[p]]
  /\ writes' = writes + 1
  /\ pc' = "done"
  /\ UNCHANGED <<run, today, src_idx, first_ref, gospel_ref, src_used, fetched,
                 outcomes, error, first_text, gospel_text, img_bytes,
                 public_id, cdn, fnVars>>

\* the next invocation of the script
NextRun ==
  /\ pc \in {"done", "aborted"}
  /\ run < MaxRuns
  /\ run' = run + 1
  /\ pc' = "feeds"
  /\ src_idx' = 1
  /\ first_ref' = None
  /\ gospel_ref' = None
  /\ src_used' = NoneAtom
  /\ fetched' = <<>>
  /\ outcomes' = <<>>
  /\ error' = NoneAtom
  /\ first_text' = NoneAtom
  /\ gospel_text' = NoneAtom
  /\ img_bytes' = NoneAtom
  /\ public_id' = None
  /\ md_path' = None
  /\ today' \in Dates
  /\ UNCHANGED <<cdn, files, writes, fnVars>>

Next ==
  \/ FeedError
  \/ FeedEmpty
  \/ FeedEntry
  \/ HtmlSkip
  \/ HtmlError
  \/ HtmlPage
  \/ NotFound
  \/ FetchTexts
  \/ PlaceholderImage
  \/ GenerateImage
  \/ Upload
  \/ UploadError
  \/ WritePost
  \/ NextRun

Spec == Init /\ [][Next]_vars

(***************************************************************************)
(* The normalizer and the slug deriver on their own: one call of           *)
(* _normalize_book, or of _sanitize_ref and slug_from_reference, and       *)
(* slug_from_reference again on the slug, over a set of arguments.         *)
(***************************************************************************)
\* all sequences over cs of length lo..hi
SeqsOver(cs, lo, hi) == UNION {[1..n -> cs] : n \in lo..hi}

Chapters == { <<"1", "4">> }

\* verse expressions made of digits, commas and hyphens
VerseExprs == SeqsOver({"1", ",", "-"}, 1, MaxVerseLen)

\* "<abbr> <chapter>:<verses>" for every key of BOOK_MAP
KeyInputs ==
  {[kind |-> "ref", parts |-> [abbr |-> k, chap |-> c, verses |-> v],
    text |-> FormatRef(k, c, v)] :
     k \in BookKeys, c \in Chapters, v \in VerseExprs}

\* the examples of the specification, and references it would call odd
ExampleParts ==
  { [abbr |-> <<"L", "k">>, chap |-> <<"1", "4">>,
     verses |-> <<"1", "2", "-", "1", "4">>],
    [abbr |-> <<"D", "t">>, chap |-> <<"4">>,
     verses |-> <<"1", ",", "5", "-", "9">>],
    [abbr |-> <<"1", " ", " ", "S", "m">>, chap |-> <<"3">>,
     verses |-> <<"1", ",", "5", "-", "9", "b">>],
    [abbr |-> <<"l", "k">>, chap |-> <<"1", "4">>,
     verses |-> <<"1", " ", "t", "o", " ", "3">>],
    [abbr |-> <<"L", "k">>, chap |-> <<"U+0663">>,
     verses |-> <<"1", "U+2013", "U+0663">>],
    [abbr |-> <<"L", "k">>, chap |-> <<"1", "4">>, verses |-> <<"b">>],
    [abbr |-> <<"L", "k", ".">>, chap |-> <<"1", "4">>, verses |-> <<"1">>],
    [abbr |-> <<"S", "o", "n", "g", " ", "o", "f", " ", "S", "o", "n", "g", "s">>,
     chap |-> <<"2">>, verses |-> <<"1", ",", " ", "2">>],
    [abbr |-> <<"X", "y">>, chap |-> <<"1">>, verses |-> <<"1", ":", "2">>] }

\* the same references with whitespace around and between their parts
ExampleInputs ==
  {[kind |-> "ref", parts |-> p,
    text |-> lead \o p.abbr \o sep \o p.chap \o <<":">> \o p.verses \o trail] :
     p \in ExampleParts,
     lead \in {<<>>, <<" ">>},
     sep \in {<<" ">>, <<" ", " ">>, <<"U+0009">>},
     trail \in {<<>>, <<" ">>, <<",">>}}

Alphabet == {"L", "k", " ", "U+0009", "1", ":", ",", "-", "_", "U+0663"}

\* every short string, and some longer text that is no reference
TextInputs ==
  {[kind |-> "ref", parts |-> NoGroups, text |-> t] :
     t \in SeqsOver(Alphabet, 0, MaxLen) \cup
           { <<"l", "u", "k", "e", "1", "4", "_", "1", "2", "-", "1", "4">>,
             <<" ", "-", "L", " ", " ", "k", ":", " ">>,
             <<"D", "a", "i", "l", "y", " ", "R", "e", "a", "d", "i", "n", "g", "s">>,
             DAILY_GOSPEL }}

\* a key in the spellings a feed may use, and names that are no key
Spellings(k) ==
  { k, LowerStr(k), UpperStr(k), <<" ">> \o k \o <<"U+0009">>,
    Replace(k, <<" ">>, <<" ", "U+0009">>) }

BookInputs ==
  UNION {{[kind |-> "book",
           parts |-> [abbr |-> k, chap |-> None, verses |-> None],
           text |-> t] : t \in Spellings(k)} : k \in BookKeys} \cup
  {[kind |-> "book", parts |-> NoGroups, text |-> t] :
     t \in { <<"X", "y">>, <<" ", "X", " ", " ", "y", " ">>, <<>> }}

NormInputs == KeyInputs \cup ExampleInputs \cup TextInputs \cup BookInputs

InitNorm ==
  /\ run = 1
  /\ cdn = {}
  /\ files = <<>>
  /\ writes = 0
  /\ today = CHOOSE d \in Dates : TRUE
  /\ RunStart
  /\ \E c \in NormInputs :
        /\ ref_in = c.text
        /\ parts = c.parts
        /\ phase = c.kind
  /\ sanitized = None
  /\ book_out = None
  /\ slug_out = None
  /\ reslug_out = None

\* book = _normalize_book(abbr)
NormalizeBook ==
  /\ phase = "book"
  /\ book_out' = _normalize_book(ref_in)
  /\ phase' = "normalized"
  /\ UNCHANGED <<mainVars, ref_in, parts, sanitized, slug_out, reslug_out>>

\* _sanitize_ref(ref)
Sanitize ==
  /\ phase = "ref"
  /\ sanitized' = _sanitize_ref(ref_in)
  /\ phase' = "sanitized"
  /\ UNCHANGED <<mainVars, ref_in, parts, book_out, slug_out, reslug_out>>

\* slug = slug_from_reference(ref)
Slug ==
  /\ phase = "sanitized"
  /\ slug_out' = slug_from_reference(ref_in)
  /\ phase' = "slugged"
  /\ UNCHANGED <<mainVars, ref_in, parts, sanitized, book_out, reslug_out>>

\* slug_from_reference(slug)
Reslug ==
  /\ phase = "slugged"
  /\ reslug_out' = slug_from_reference(slug_out)
  /\ phase' = "reslugged"
  /\ UNCHANGED <<mainVars, ref_in, parts, sanitized, book_out, slug_out>>

NextNorm ==
  \/ NormalizeBook
  \/ Sanitize
  \/ Slug
  \/ Reslug

SpecNorm == InitNorm /\ [][NextNorm]_vars

(***************************************************************************)
(* Properties.                                                             *)
(***************************************************************************)
\* the order in which the sources are to be tried
ClaimedOrder == <<"catholic.org", "usccb_rss", "feedburner", "usccb_html">>

\* a fetched source gave at least one non-empty reference
Yielded(o) == o.kind = "refs" /\ (Truthy(o.fr) \/ Truthy(o.gr))

\* a reference as main() holds it: None when the source gave none
AsHeld(r) == IF Truthy(r) THEN r ELSE None

ChainOver == pc \in {"check", "aborted"} /\ fetched # <<>>

NOT_FOUND == "RuntimeError: No readings found"

\* C1: the sources are fetched in the order catholic.org, usccb_rss,
\* feedburner, usccb_html; every source fetched before the last one fetched
\* gave no reference (so nothing is fetched after a source that gave one),
\* and the page is fetched only after all three feeds gave none.
C1_SourcesInOrderStopAtFirst ==
  /\ Len(outcomes) = Len(fetched)
  /\ Len(fetched) <= Len(ClaimedOrder)
  /\ \A k \in 1..Len(fetched) : fetched[k] = ClaimedOrder[k]
  /\ \A k \in 1..(Len(fetched) - 1) : ~Yielded(outcomes[k])
  /\ \A k \in 1..Len(fetched) :
        fetched[k] = "usccb_html" =>
           /\ k = 4
           /\ \A j \in 1..3 : ~Yielded(outcomes[j])

\* the chain stopped at the second feed: the third feed and the page were
\* not fetched
C1_Witness ==
  /\ pc = "check"
  /\ fetched = <<"catholic.org", "usccb_rss">>
  /\ outcomes[1].kind = "exception"
  /\ Yielded(outcomes[2])

\* C2: when the chain is over no exception of a source has ended the run,
\* every source before the first one that gave a reference was followed by
\* the next, and the result is that source's references and identifier;
\* if no source gave one, all four were tried.
C2_FirstYieldingSourceWins ==
  ChainOver =>
    /\ error \in {NoneAtom, NOT_FOUND}
    /\ \A k \in 1..Len(outcomes) :
          (Yielded(outcomes[k]) /\ \A j \in 1..(k - 1) : ~Yielded(outcomes[j]))
             => /\ first_ref = AsHeld(outcomes[k].fr)
                /\ gospel_ref = AsHeld(outcomes[k].gr)
                /\ src_used = ClaimedOrder[k]
                /\ error = NoneAtom
    /\ (\A k \in 1..Len(outcomes) : ~Yielded(outcomes[k]))
          => Len(fetched) = Len(ClaimedOrder)

\* the first two feeds fail, one by an exception and one by an empty feed,
\* and the third gives a first reading only
C2_Witness ==
  /\ pc = "check"
  /\ Len(outcomes) = 3
  /\ outcomes[1].kind = "exception"
  /\ outcomes[2].kind = "no_entry"
  /\ Yielded(outcomes[3])
  /\ src_used = "feedburner"
  /\ first_ref = outcomes[3].fr
  /\ gospel_ref = None

RunHasNoOutput ==
  /\ first_text = NoneAtom
  /\ gospel_text = NoneAtom
  /\ img_bytes = NoneAtom
  /\ public_id = None
  /\ md_path = None

\* C3: when the three feeds and the page all gave no reference, no
\* reference is held, and a run that holds no reference after the chain
\* ends in the "not found" RuntimeError without fetching a text, making or
\* uploading an image, or writing a post.
C3_AllFailAbortsWithoutOutput ==
  /\ (ChainOver /\ \A k \in 1..Len(outcomes) : ~Yielded(outcomes[k]))
        => ~Truthy(first_ref) /\ ~Truthy(gospel_ref)
  /\ (~Truthy(first_ref) /\ ~Truthy(gospel_ref))
        => /\ pc \in {"feeds", "html", "check", "aborted"}
           /\ pc = "aborted" => error = NOT_FOUND
           /\ RunHasNoOutput
  /\ (pc = "aborted" /\ error = NOT_FOUND) => RunHasNoOutput

\* every kind of failure at once: an exception, an empty feed, an entry and
\* a page without a reference
C3_Witness ==
  /\ pc = "aborted"
  /\ error = NOT_FOUND
  /\ Len(outcomes) = 4
  /\ outcomes[1].kind = "exception"
  /\ outcomes[2].kind = "no_entry"
  /\ outcomes[3].kind = "refs"
  /\ outcomes[4].kind = "refs"
  /\ RunHasNoOutput

\* the call has returned
Sanitized == phase \in {"sanitized", "slugged", "reslugged"}

Slugged == phase \in {"slugged", "reslugged"}

\* the argument, as the pattern of _sanitize_ref sees it
Shape(ref) == SanitizeMatch(Strip(CollapseWs(ref)))

\* a verse expression of digits, commas and hyphens: numbers, each comma
\* or hyphen between two of them
IsVerseList(v) ==
  /\ v # <<>>
  /\ \A k \in 1..Len(v) : v[k] \in AsciiDigit \cup {",", "-"}
  /\ v[1] \in AsciiDigit
  /\ v[Len(v)] \in AsciiDigit
  /\ \A k \in 1..(Len(v) - 1) : v[k] \in AsciiDigit \/ v[k + 1] \in AsciiDigit

\* the argument is "<abbr> <chapter>:<verses>" for a key abbr
IsKeyRef ==
  /\ parts.abbr \in BookKeys
  /\ IsVerseList(parts.verses)
  /\ \A k \in 1..Len(parts.chap) : parts.chap[k] \in AsciiDigit
  /\ ref_in = FormatRef(parts.abbr, parts.chap, parts.verses)

\* C4: for every key abbr of BOOK_MAP, _sanitize_ref("<abbr> <chapter>:
\* <verses>") is "<BOOK_MAP[abbr]> <chapter>:<verses>".
C4_EveryKeyIsNormalized ==
  (Sanitized /\ IsKeyRef) =>
     sanitized = FormatRef(BOOK_MAP[parts.abbr], parts.chap, parts.verses)

HasUnderscore(s) == \E k \in 1..Len(s) : s[k] = "_"

\* C5 as claimed: the slug of a slug is that slug.
C5_SlugOfSlugIsSlug == phase = "reslugged" => reslug_out = slug_out

\* C5: the slug of a slug is that slug exactly when it holds no "_", which
\* is when the argument was no reference; the slug of a slug holds no "_".
C5_SlugOfSlugUnlessUnderscore ==
  phase = "reslugged" =>
     /\ reslug_out = slug_out <=> ~HasUnderscore(slug_out)
     /\ HasUnderscore(slug_out) <=> SlugMatch(sanitized).ok
     /\ ~HasUnderscore(reslug_out)

C5_Witness ==
  /\ phase = "reslugged"
  /\ ref_in = <<"L", "k", " ", "1", "4", ":", "1", "2", "-", "1", "4">>
  /\ slug_out = <<"l", "u", "k", "e", "1", "4", "_", "1", "2", "-", "1", "4">>
  /\ reslug_out = <<"l", "u", "k", "e", "1", "4", "-", "1", "2", "-", "1", "4">>

NoSpaces(s) == SelectSeq(s, LAMBDA c : c # " ")

CommasToUnderscores(s) == [k \in 1..Len(s) |-> IF s[k] = "," THEN "_" ELSE s[k]]

\* canonical book, lower case, spaces removed; chapter; "_"; the normalized
\* verses with "_" for each comma
ClaimedSlug(m) ==
  NoSpaces(LowerStr(_normalize_book(m.g1))) \o m.g2 \o <<"_">> \o
  CommasToUnderscores(_normalize_verses(m.g3))

SlugIsClaimed(m) == m.ok => slug_out = ClaimedSlug(m)

SlugIsClaimedIfVerses(m) ==
  (m.ok /\ _normalize_verses(m.g3) # <<>>) => slug_out = ClaimedSlug(m)

\* C6 as claimed: every argument of the shape of a reference gets the slug
\* book, chapter, "_", verses.
C6_SlugOfEveryReference == Slugged => SlugIsClaimed(Shape(ref_in))

\* C6: every argument of the shape of a reference whose verses do not
\* normalize to the empty string gets the slug book, chapter, "_", verses.
C6_SlugOfReferenceWithVerses == Slugged => SlugIsClaimedIfVerses(Shape(ref_in))

C6_Witness ==
  /\ phase = "slugged"
  /\ ref_in = <<"D", "t", " ", "4", ":", "1", ",", "5", "-", "9">>
  /\ slug_out = <<"d", "e", "u", "t", "e", "r", "o", "n", "o", "m", "y",
                  "4", "_", "1", "_", "5", "-", "9">>

\* C7 as claimed: an argument that has not the shape comes back with only
\* the whitespace at its ends removed.
C7_UnmatchedIsTrimmed ==
  (Sanitized /\ ~Shape(ref_in).ok) => sanitized = Strip(ref_in)

\* C7: an argument that has not the shape comes back with every run of
\* whitespace made one space and the spaces, commas, semicolons, colons and
\* hyphens at its ends removed.
C7_UnmatchedIsCollapsedAndStripped ==
  (Sanitized /\ ~Shape(ref_in).ok) =>
     sanitized = StripSet(CollapseWs(ref_in), {" ", ",", ";", ":", "-"})

C7_Witness ==
  /\ phase = "sanitized"
  /\ ref_in = <<" ", "-", "L", " ", " ", "k", ":", " ">>
  /\ sanitized = <<"L", " ", "k">>

\* a name folded for a lookup that ignores case and the amount of whitespace
Folded(s) == LowerStr(CollapseWs(Strip(s)))

\* C8: a spelling of a key that differs from it in case or whitespace only
\* resolves to the key's book; a name that is no key, folded so, comes back
\* as it was given.
C8_LookupIgnoresCaseAndSpace ==
  phase = "normalized" =>
     /\ parts.abbr \in BookKeys => book_out = BOOK_MAP[parts.abbr]
     /\ (\A k \in BookKeys : Folded(k) # Folded(ref_in)) => book_out = ref_in

\* C9 as claimed: the posts written for one date are one file.
C9_OneFilePerDate ==
  \A p \in DOMAIN files, q \in DOMAIN files :
     files[p].date = files[q].date => p = q

\* C9: a post is the file content/post/<slug>.md for the slug of its title
\* (the gospel reference, else the first reading), whatever the date: runs
\* that resolve the same title write the same file, others another.
C9_OneFilePerTitle ==
  /\ \A p \in DOMAIN files :
        p = <<"content/post", SlugOf[files[p].title] \o <<".", "m", "d">>>>
  /\ pc = "done" =>
        /\ md_path \in DOMAIN files
        /\ files[md_path].title = AsHeld(IF Truthy(gospel_ref) THEN gospel_ref
                                         ELSE first_ref)
        /\ files[md_path].date = today

\* two runs of one date (one public_id) have written, the second over the
\* file of the first
C9_Witness ==
  /\ pc = "done"
  /\ writes = 2
  /\ Cardinality(cdn) = 1
  /\ Cardinality(DOMAIN files) = 1

\* C10: a slug is not empty and holds only a-z, 0-9, "-" and "_".
C10_SlugIsSafeToken ==
  Slugged =>
     /\ slug_out # <<>>
     /\ \A k \in 1..Len(slug_out) :
           slug_out[k] \in Lower \cup AsciiDigit \cup {"-", "_"}


\* at least one reference was resolved
Resolved == Truthy(first_ref) \/ Truthy(gospel_ref)

\* a step of write_post: a file, the count of writes or the path changes
PostWritten == files' # files \/ writes' # writes \/ md_path' \notin {md_path, None}

\* what one step of a run may do to the image, the upload and the post
OutputInOrder ==
  /\ PostWritten =>
        /\ pc = "write"
        /\ md_path = None
        /\ writes' = writes + 1
        /\ public_id \in cdn
        /\ error = NoneAtom
  /\ pc' = "write" =>
        /\ pc = "upload"
        /\ Resolved
        /\ img_bytes \in {"placeholder", "generated"}
        /\ public_id' \in cdn'
        /\ error' = NoneAtom
  /\ cdn' # cdn => pc' = "write"
  /\ (pc = "upload" /\ pc' # "write") =>
        /\ pc' = "aborted"
        /\ error' # NoneAtom
        /\ md_path' = None
  /\ pc = "aborted" => ~PostWritten /\ cdn' = cdn /\ pc' = "feeds"
  /\ pc = "image" =>
        /\ pc' = "upload"
        /\ error' = NoneAtom
        /\ img_bytes' \in {"placeholder", "generated"}
  /\ pc = "write" =>
        /\ pc' = "done"
        /\ md_path' \in DOMAIN files'
  /\ pc = "done" => ~PostWritten /\ pc' = "feeds"

\* C11: in a run write_post runs at most once, and only after
\* upload_to_cloudinary has returned, which it does only after a reference
\* was resolved; when the upload raises the run aborts and writes no post;
\* after the image step, with the generated or the placeholder bytes, the
\* run is not aborted: the bytes are uploaded and, the upload returned, the
\* post is written.
C11_WriteOnceAfterUpload == [][OutputInOrder]_vars

\* image generation failed (or was disabled): the placeholder was uploaded
\* and the post written
C11_Witness ==
  /\ pc = "done"
  /\ img_bytes = "placeholder"
  /\ error = NoneAtom
  /\ public_id \in cdn
  /\ md_path \in DOMAIN files
  /\ writes = 1

=============================================================================
